---- MODULE Spec2Model ----
(***************************************************************************)
(* senza/components/elastic_load_balancer.py: the load balancer component. *)
(* Python strings that the code slices, strips or concatenates are         *)
(* sequences of one-character strings; None is a record with some = FALSE. *)
(***************************************************************************)
EXTENDS Integers, Sequences, FiniteSets, TLC

VARIABLES
    pc,                 \* position in the running function
    given,              \* the configuration as the caller passed it
    configuration,      \* the configuration dict (mutated in place)
    info,               \* info["StackName"], info["StackVersion"]
    definition,         \* definition["Resources"]
    k,                  \* index of the domain binding being processed
    records,            \* what Route53.get_records returned for binding k
    converted_records,  \* the defaultdict built for binding k, insertion order
    zi,                 \* index of the hosted zone being converted
    subdomain,          \* local variable subdomain
    main_zone,          \* local variable main_zone
    aws,                \* answers of ACM and IAM during get_listeners
    listeners,          \* local variable listeners
    queries,            \* calls made to ACM and IAM, in order
    error,              \* the exception or fatal error that ended the call
    calls,              \* calls made to Route53, click.confirm and hosted zones
    loadbalancer_name   \* local variable loadbalancer_name

vars == <<pc, given, configuration, info, definition, k, records,
          converted_records, zi, subdomain, main_zone, aws, listeners,
          queries, error, calls, loadbalancer_name>>

-----------------------------------------------------------------------------
(* Bounds of the model *)

MaxStackLen == 34
MaxVersionLen == 33
MaxSuffixLen == 2
MaxDomains == 2
MaxRecords == 2
MaxCerts == 2
MaxOverrides == 1

-----------------------------------------------------------------------------
(* Python helpers *)

Min(a, b) == IF a < b THEN a ELSE b
Max(a, b) == IF a > b THEN a ELSE b

None == [some |-> FALSE, v |-> <<>>]
Some(s) == [some |-> TRUE, v |-> s]

\* s[:l]
SliceTo(s, l) ==
    IF l >= 0 THEN SubSeq(s, 1, Min(l, Len(s)))
    ELSE SubSeq(s, 1, Max(0, Len(s) + l))

\* s.rstrip('.')
RECURSIVE RStripDot(_)
RStripDot(s) ==
    IF s # <<>> /\ s[Len(s)] = "." THEN RStripDot(SubSeq(s, 1, Len(s) - 1))
    ELSE s

LowerChar(c) == IF c = "Z" THEN "z" ELSE IF c = "O" THEN "o" ELSE c

\* s.lower()
Lower(s) == [i \in 1..Len(s) |-> LowerChar(s[i])]

\* s.replace('.', '-')
ReplaceDots(s) == [i \in 1..Len(s) |-> IF s[i] = "." THEN "-" ELSE s[i]]

\* s.endswith(t)
EndsWith(s, t) ==
    /\ Len(t) <= Len(s)
    /\ SubSeq(s, Len(s) - Len(t) + 1, Len(s)) = t

\* '{}-{}'.format(a, b)
Dash(a, b) == a \o <<"-">> \o b

\* '{}.{}'.format(a, b)
Dot(a, b) == a \o <<".">> \o b

Truthy(opt) == opt.some /\ opt.v # <<>>

Get(conf, key) == IF key \in DOMAIN conf THEN Some(conf[key]) ELSE None

Remove(conf, key) == [x \in DOMAIN conf \ {key} |-> conf[x]]

Put(conf, key, val) == [x \in DOMAIN conf \cup {key} |-> IF x = key THEN val ELSE conf[x]]

-----------------------------------------------------------------------------
(* get_load_balancer_name *)

NameLimit == 32

\* the name with no shortening
get_load_balancer_name_unclamped(stack_name, stack_version) ==
    Dash(stack_name, stack_version)

get_load_balancer_name(stack_name, stack_version) ==
    LET l == NameLimit - Len(stack_version) - 1
    IN  Dash(SliceTo(stack_name, l), stack_version)

\* the version the name is built from: StackVersion, with '-<NameSuffix>' when
\* the configuration has a non-empty NameSuffix
NameVersion(conf, inf) ==
    IF Truthy(Get(conf, "NameSuffix"))
    THEN Dash(inf.StackVersion, conf["NameSuffix"])
    ELSE inf.StackVersion

LoadBalancerNameOf(conf, inf) == get_load_balancer_name(inf.StackName, NameVersion(conf, inf))

DropNameSuffix(conf) ==
    IF Truthy(Get(conf, "NameSuffix")) THEN Remove(conf, "NameSuffix") ELSE conf

-----------------------------------------------------------------------------
(* Certificates and the answers of the two certificate stores *)

NoCert == [shape |-> "none", id |-> 0]
AcmArn(n) == [shape |-> "acm_arn", id |-> n]
IamArn(n) == [shape |-> "iam_arn", id |-> n]
CertName(n) == [shape |-> "name", id |-> n]

AcmCertificate(n) == [store |-> "acm", id |-> n]
IamCertificate(n) == [store |-> "iam", id |-> n]

\* certificate.arn
Arn(certificate) ==
    IF certificate.store = "acm" THEN AcmArn(certificate.id) ELSE IamArn(certificate.id)

arn_is_acm_certificate(ssl_cert) == ssl_cert.shape = "acm_arn"

arn_is_server_certificate(ssl_cert) == ssl_cert.shape = "iam_arn"

\* certificates compare by their ordering key
Less(a, b) == a.id < b.id

RECURSIVE Insert(_, _)
Insert(c, s) ==
    IF s = <<>> THEN <<c>>
    ELSE IF Less(c, Head(s)) THEN <<c>> \o s
    ELSE <<Head(s)>> \o Insert(c, Tail(s))

\* sorted(s)
RECURSIVE Sorted(_)
Sorted(s) == IF s = <<>> THEN <<>> ELSE Insert(Head(s), Sorted(Tail(s)))

Reverse(s) == [i \in 1..Len(s) |-> s[Len(s) + 1 - i]]

\* sorted(s, reverse=True)
SortedReverse(s) == Reverse(Sorted(s))

\* every list of distinct elements of S, in every order, up to length n
RECURSIVE Lists(_, _)
Lists(S, n) ==
    IF n = 0 THEN {<<>>}
    ELSE LET shorter == Lists(S, n - 1)
         IN  shorter \cup {Append(s, x) : s \in shorter, x \in S}

DistinctLists(S, n) ==
    {s \in Lists(S, n) : \A i, j \in 1..Len(s) : i # j => s[i] # s[j]}

NoAnswer ==
    [acm_exists |-> TRUE, iam_by_name |-> NoCert,
     acm |-> <<>>, iam_pattern |-> <<>>, iam_all |-> <<>>]

\* what ACM and IAM may answer to the calls get_listeners makes for this
\* certificate id and zone, over certificates with ordering keys in ids; a call
\* it does not make has no answer
Answers(ssl_cert, zone, ids) ==
    LET acm_lists == DistinctLists({AcmCertificate(n) : n \in ids}, Cardinality(ids))
        iam_lists == DistinctLists({IamCertificate(n) : n \in ids}, Cardinality(ids))
    IN  IF arn_is_acm_certificate(ssl_cert)
        THEN {[NoAnswer EXCEPT !.acm_exists = b] : b \in BOOLEAN}
        ELSE IF arn_is_server_certificate(ssl_cert) THEN {NoAnswer}
        ELSE IF ssl_cert # NoCert
        THEN {[NoAnswer EXCEPT !.iam_by_name = a] : a \in {NoCert, IamArn(ssl_cert.id)}}
        ELSE IF ~zone.some THEN {NoAnswer}
        ELSE UNION {{[NoAnswer EXCEPT !.acm = a, !.iam_pattern = p, !.iam_all = q] :
                        a \in (IF zone.v # <<>> THEN acm_lists ELSE {<<>>}),
                        q \in (IF p = <<>> THEN iam_lists ELSE {<<>>})} :
                    p \in iam_lists}

-----------------------------------------------------------------------------
(* get_listeners *)

NoError == [kind |-> "none", name |-> <<>>]
Fatal(kind, name) == [kind |-> kind, name |-> name]

Query(call, arg) == [call |-> call, arg |-> arg]

Listener(ssl_cert, conf) ==
    [PolicyNames |-> <<>>, SSLCertificateId |-> ssl_cert, Protocol |-> "HTTPS",
     InstancePort |-> conf["HTTPPort"], LoadBalancerPort |-> 443]

Outcome(ls, err, qs) == [listeners |-> ls, error |-> err, queries |-> qs]

\* iam_pattern = main_zone.lower().rstrip('.').replace('.', '-')
IamPattern(zone) == ReplaceDots(RStripDot(Lower(zone)))

\* name = '{sub}.{zone}'.format(sub=subdomain, zone=main_zone.rstrip('.'))
CertificateDomain(sub, zone) == Dot(sub, RStripDot(zone))

\* iam_certificates: the pattern search, and every certificate when it is empty
IamCertificates(answer) ==
    IF Sorted(answer.iam_pattern) # <<>> THEN Sorted(answer.iam_pattern)
    ELSE SortedReverse(answer.iam_all)

AcmCertificates(zone, answer) ==
    IF zone # <<>> THEN SortedReverse(answer.acm) ELSE <<>>

CandidatesIamFirst(acm_certificates, iam_certificates) ==
    iam_certificates \o acm_certificates

\* the priority is acm_certificate first and iam_certificate second
Candidates(acm_certificates, iam_certificates) ==
    acm_certificates \o iam_certificates

IamQueries(zone, answer) ==
    <<Query("IAM.get_certificates", IF zone # <<>> THEN IamPattern(zone) ELSE <<>>)>>
    \o (IF Sorted(answer.iam_pattern) = <<>>
        THEN <<Query("IAM.get_certificates()", <<>>)>> ELSE <<>>)

DomainSearch(sub, zone, conf, answer) ==
    LET name == CertificateDomain(sub, zone)
        certificates == Candidates(AcmCertificates(zone, answer), IamCertificates(answer))
        qs == (IF zone # <<>> THEN <<Query("ACM.get_certificates", name)>> ELSE <<>>)
              \o IamQueries(zone, answer)
    IN  IF certificates # <<>>
        THEN Outcome(<<Listener(Arn(certificates[1]), conf)>>, NoError, qs)
        ELSE IF zone # <<>>
        THEN Outcome(<<>>, Fatal("Could not find any matching SSL certificate for", name), qs)
        ELSE Outcome(<<>>, Fatal("Could not find any SSL certificate", <<>>), qs)

get_listeners(sub, zone, conf, answer) ==
    LET got == Get(conf, "SSLCertificateId")
        ssl_cert == IF got.some THEN got.v ELSE NoCert
    IN  IF arn_is_acm_certificate(ssl_cert)
        THEN IF answer.acm_exists
             THEN Outcome(<<Listener(ssl_cert, conf)>>, NoError,
                          <<Query("ACMCertificate.get_by_arn", <<>>)>>)
             ELSE Outcome(<<>>, Fatal("ClientError", <<>>),
                          <<Query("ACMCertificate.get_by_arn", <<>>)>>)
        ELSE IF arn_is_server_certificate(ssl_cert)
        THEN Outcome(<<Listener(ssl_cert, conf)>>, NoError, <<>>)
        ELSE IF ssl_cert # NoCert
        THEN IF answer.iam_by_name # NoCert
             THEN Outcome(<<Listener(answer.iam_by_name, conf)>>, NoError,
                          <<Query("IAMServerCertificate.get_by_name", <<>>)>>)
             ELSE Outcome(<<>>, Fatal("IAMServerCertificate.get_by_name", <<>>),
                          <<Query("IAMServerCertificate.get_by_name", <<>>)>>)
        ELSE IF zone.some
        THEN DomainSearch(sub, zone.v, conf, answer)
        ELSE Outcome(<<Listener(ssl_cert, conf)>>, NoError, <<>>)

-----------------------------------------------------------------------------
(* The inputs: configuration, info, Route53 records *)

SENZA_PROPERTIES_WithoutPath ==
    {"Domains", "HealthCheckPort", "HealthCheckProtocol",
     "HTTPPort", "Name", "SecurityGroups", "SSLCertificateId", "Type"}

SENZA_PROPERTIES ==
    {"Domains", "HealthCheckPath", "HealthCheckPort", "HealthCheckProtocol",
     "HTTPPort", "Name", "SecurityGroups", "SSLCertificateId", "Type"}

DigitChars == <<"0", "1", "2", "3", "4", "5", "6", "7", "8", "9">>
Num(i) == <<DigitChars[(i % 10) + 1]>>

MainZone == <<"Z", ".", "o", ".">>

DomainTypes == {"weighted", "standalone"}

Binding(i, type, zone) ==
    [key |-> <<"D">> \o Num(i), Subdomain |-> <<"s">> \o Num(i), Zone |-> zone, Type |-> type]

\* the Domains mappings of up to n bindings, in configuration order
DomainSeqs(n) ==
    UNION {{[i \in 1..m |-> Binding(i, t[i], MainZone)] : t \in [1..m -> DomainTypes]} : m \in 0..n}

BaseConfiguration(doms) ==
    LET base == [Name |-> <<"L">>, HTTPPort |-> 8080, SecurityGroups |-> <<"app-sg">>,
                 Type |-> "Senza::ElasticLoadBalancer"]
    IN  IF doms = <<>> THEN base ELSE Put(base, "Domains", doms)

OptionalKeys ==
    {"SSLCertificateId", "Listeners", "NameSuffix", "Scheme", "HealthCheckProtocol",
     "HealthCheckPath", "HealthCheckPort", "LoadBalancerName", "Tags", "CrossZone",
     "ConnectionSettings"}

NumOptions(key) ==
    CASE key \in {"SSLCertificateId", "Scheme"} -> 3
      [] key \in {"Listeners", "NameSuffix", "HealthCheckProtocol"} -> 2
      [] OTHER -> 1

CustomListener ==
    [PolicyNames |-> <<>>, SSLCertificateId |-> NoCert, Protocol |-> "HTTP",
     InstancePort |-> 8080, LoadBalancerPort |-> 80]

OptionValue(key, i) ==
    CASE key = "SSLCertificateId" -> <<AcmArn(1), IamArn(1), CertName(1)>>[i]
      [] key = "Listeners" -> <<<<>>, <<CustomListener>>>>[i]
      [] key = "NameSuffix" -> << <<>>, <<"x">> >>[i]
      [] key = "Scheme" -> <<"internal", "internet-facing", "bogus">>[i]
      [] key = "HealthCheckProtocol" -> <<"TCP", "FTP">>[i]
      [] key = "HealthCheckPath" -> "/health"
      [] key = "HealthCheckPort" -> 9000
      [] key = "LoadBalancerName" -> <<"m", "y">>
      [] key = "Tags" -> <<[Key |-> "team", Value |-> <<"t">>]>>
      [] key = "CrossZone" -> "false"
      [] key = "ConnectionSettings" -> [IdleTimeout |-> 30]

WithOptions(conf, keys, choice) ==
    [x \in DOMAIN conf \cup keys |-> IF x \in keys THEN OptionValue(x, choice[x]) ELSE conf[x]]

Record(hz, type) == [hosted_zone |-> hz, type |-> type, alias |-> FALSE]

\* record.to_alias()
to_alias(record) == [record EXCEPT !.type = "A", !.alias = TRUE]

RecordUniverse ==
    {Record("hz1", "A"), Record("hz1", "CNAME"), Record("hz1", "TXT"), Record("hz2", "CNAME")}

\* what Route53.get_records may return
RecordLists == DistinctLists(RecordUniverse, MaxRecords)

\* resolve_security_groups
SecurityGroupId(name) == IF name = "app-sg" THEN "sg-1" ELSE "sg-2"
resolve_security_groups(groups) == [i \in 1..Len(groups) |-> SecurityGroupId(groups[i])]

-----------------------------------------------------------------------------
(* component_elastic_load_balancer: the domain loop *)

Domains(conf) == IF "Domains" \in DOMAIN conf THEN conf["Domains"] ELSE <<>>

lb_name(conf) == conf["Name"]

\* name = '{}{}'.format(lb_name, name)
ResourceName(conf, i) == lb_name(conf) \o Domains(conf)[i].key

\* domain_name = "{0}.{1}".format(domain["Subdomain"], domain["Zone"])
DomainName(domain) == Dot(domain.Subdomain, domain.Zone)

ZoneIndex(acc, hz) ==
    IF \E i \in 1..Len(acc) : acc[i].hosted_zone = hz
    THEN CHOOSE i \in 1..Len(acc) : acc[i].hosted_zone = hz
    ELSE 0

AddConverted(acc, record) ==
    LET i == ZoneIndex(acc, record.hosted_zone)
    IN  IF i = 0
        THEN Append(acc, [hosted_zone |-> record.hosted_zone,
                          to_delete |-> <<record>>,
                          to_upsert |-> <<to_alias(record)>>])
        ELSE [acc EXCEPT ![i].to_delete = Append(@, record),
                         ![i].to_upsert = Append(@, to_alias(record))]

NeedsConversionAll(record) == TRUE

NeedsConversion(record) == record.type # "A"

RECURSIVE Convert(_, _)
Convert(recs, acc) ==
    IF recs = <<>> THEN acc
    ELSE Convert(Tail(recs),
                 IF NeedsConversion(Head(recs)) THEN AddConverted(acc, Head(recs)) ELSE acc)

\* converted_records after the loop over records
ConvertedRecords(recs) == Convert(recs, <<>>)

Call(op, i, hz, recs, ok) == [op |-> op, k |-> i, hz |-> hz, recs |-> recs, ok |-> ok]

RecordSetProperties(conf, inf, domain) ==
    LET target == [HostedZoneId |-> <<"Fn::GetAtt", lb_name(conf), "CanonicalHostedZoneNameID">>,
                   DNSName |-> <<"Fn::GetAtt", lb_name(conf), "DNSName">>]
    IN  IF domain.Type = "weighted"
        THEN [Type |-> "A", Name |-> DomainName(domain), HostedZoneName |-> domain.Zone,
              AliasTarget |-> target, Weight |-> 0,
              SetIdentifier |-> Dash(inf.StackName, inf.StackVersion)]
        ELSE [Type |-> "A", Name |-> DomainName(domain), HostedZoneName |-> domain.Zone,
              AliasTarget |-> target]

RecordSet(conf, inf, domain) ==
    [Type |-> "AWS::Route53::RecordSet", Properties |-> RecordSetProperties(conf, inf, domain)]

\* the step after click.confirm: the conversion on yes, InvalidState on no
AfterConfirmContinue(answer) == IF answer THEN "delete" ELSE "record_set"

AfterConfirmSkipDelete(answer) == IF answer THEN "upsert" ELSE "raised"

AfterConfirm(answer) == IF answer THEN "delete" ELSE "raised"

SetsMainZoneAlways(domain) == TRUE

\* the binding whose subdomain and zone the certificate search uses
SetsMainZone(domain) == domain.Type = "weighted"

GetRecords ==
    /\ pc = "domains"
    /\ k <= Len(Domains(configuration))
    /\ \E recs \in RecordLists :
          /\ records' = recs
          /\ converted_records' = ConvertedRecords(recs)
          /\ pc' = IF ConvertedRecords(recs) # <<>> THEN "confirm" ELSE "record_set"
    /\ zi' = 1
    /\ calls' = Append(calls, Call("get_records", k, "", <<>>, TRUE))
    /\ UNCHANGED <<given, configuration, info, definition, k, subdomain, main_zone,
                   aws, listeners, queries, error, loadbalancer_name>>

Confirm ==
    /\ pc = "confirm"
    /\ \E answer \in BOOLEAN :
          /\ calls' = Append(calls, Call("confirm", k, converted_records[zi].hosted_zone,
                                         converted_records[zi].to_upsert, answer))
          /\ pc' = AfterConfirm(answer)
          /\ error' = IF AfterConfirm(answer) = "raised"
                      THEN Fatal("InvalidState", <<>>) ELSE error
    /\ UNCHANGED <<given, configuration, info, definition, k, records, converted_records,
                   zi, subdomain, main_zone, aws, listeners, queries, loadbalancer_name>>

Delete ==
    /\ pc = "delete"
    /\ calls' = Append(calls, Call("delete", k, converted_records[zi].hosted_zone,
                                   converted_records[zi].to_delete, TRUE))
    /\ pc' = "upsert"
    /\ UNCHANGED <<given, configuration, info, definition, k, records, converted_records,
                   zi, subdomain, main_zone, aws, listeners, queries, error,
                   loadbalancer_name>>

Upsert ==
    /\ pc = "upsert"
    /\ calls' = Append(calls, Call("upsert", k, converted_records[zi].hosted_zone,
                                   converted_records[zi].to_upsert, TRUE))
    /\ IF zi < Len(converted_records)
       THEN zi' = zi + 1 /\ pc' = "confirm"
       ELSE zi' = zi /\ pc' = "record_set"
    /\ UNCHANGED <<given, configuration, info, definition, k, records, converted_records,
                   subdomain, main_zone, aws, listeners, queries, error,
                   loadbalancer_name>>

AddRecordSet ==
    /\ pc = "record_set"
    /\ LET domain == Domains(configuration)[k]
       IN  /\ definition' = Put(definition, ResourceName(configuration, k),
                                RecordSet(configuration, info, domain))
           /\ IF SetsMainZone(domain)
              THEN subdomain' = domain.Subdomain /\ main_zone' = Some(domain.Zone)
              ELSE UNCHANGED <<subdomain, main_zone>>
    /\ k' = k + 1
    /\ pc' = "domains"
    \* records, converted_records and the zone position are assigned again
    \* before the next binding reads them
    /\ records' = <<>>
    /\ converted_records' = <<>>
    /\ zi' = 1
    /\ UNCHANGED <<given, configuration, info, aws, listeners, queries, error, calls,
                   loadbalancer_name>>

-----------------------------------------------------------------------------
(* component_elastic_load_balancer: listeners and the balancer resource *)

HasListeners(conf) == "Listeners" \in DOMAIN conf /\ conf["Listeners"] # <<>>

ConfiguredCertificate(conf) ==
    IF "SSLCertificateId" \in DOMAIN conf THEN conf["SSLCertificateId"] ELSE NoCert

\* listeners = configuration.get('Listeners') or get_listeners(...)
ListenersStep(ids) ==
    /\ pc = "domains"
    /\ k > Len(Domains(configuration))
    /\ IF HasListeners(configuration)
       THEN /\ listeners' = configuration["Listeners"]
            /\ pc' = "assemble"
            /\ UNCHANGED <<aws, queries, error>>
       ELSE \E answer \in Answers(ConfiguredCertificate(configuration), main_zone, ids) :
               LET out == get_listeners(subdomain, main_zone, configuration, answer)
               IN  /\ aws' = answer
                   /\ listeners' = out.listeners
                   /\ queries' = out.queries
                   /\ error' = out.error
                   /\ pc' = IF out.error = NoError THEN "assemble"
                            ELSE IF out.error.kind = "IAMServerCertificate.get_by_name"
                            THEN "raised" ELSE "exited"
    /\ UNCHANGED <<given, configuration, info, definition, k, records, converted_records,
                   zi, subdomain, main_zone, calls, loadbalancer_name>>

MainCertIds == {1}

BuildListeners == ListenersStep(MainCertIds)

ResolveListeners == ListenersStep(1..MaxCerts)

HealthCheckProtocol(conf) ==
    IF "HealthCheckProtocol" \in DOMAIN conf THEN conf["HealthCheckProtocol"] ELSE "HTTP"

HealthCheckPath(conf) ==
    IF "HealthCheckPath" \in DOMAIN conf THEN conf["HealthCheckPath"] ELSE "/ui/"

HealthCheckPort(conf) ==
    IF "HealthCheckPort" \in DOMAIN conf THEN conf["HealthCheckPort"] ELSE conf["HTTPPort"]

\* "{0}:{1}{2}".format(health_check_protocol, health_check_port, health_check_path)
HealthCheckTarget(conf) ==
    [protocol |-> HealthCheckProtocol(conf), colon |-> ":", port |-> HealthCheckPort(conf),
     path |-> HealthCheckPath(conf)]

Scheme(conf) == IF "Scheme" \in DOMAIN conf THEN conf["Scheme"] ELSE "internal"

\* configuration["Scheme"] = loadbalancer_scheme when the key is absent
WithScheme(conf) == IF "Scheme" \in DOMAIN conf THEN conf ELSE Put(conf, "Scheme", "internal")

SubnetMap(scheme) ==
    IF scheme = "internal" THEN "LoadBalancerInternalSubnets" ELSE "LoadBalancerSubnets"

ComputedProperties(conf, inf, ls, name) ==
    [x \in {"Subnets", "HealthCheck", "Listeners", "ConnectionDrainingPolicy", "CrossZone",
            "LoadBalancerName", "SecurityGroups", "Tags"} |->
        CASE x = "Subnets" -> [FindInMap |-> SubnetMap(Scheme(conf))]
          [] x = "HealthCheck" ->
                [HealthyThreshold |-> "2", UnhealthyThreshold |-> "2", Interval |-> "10",
                 Timeout |-> "5", Target |-> HealthCheckTarget(conf)]
          [] x = "Listeners" -> ls
          [] x = "ConnectionDrainingPolicy" -> [Enabled |-> TRUE, Timeout |-> 60]
          [] x = "CrossZone" -> "true"
          [] x = "LoadBalancerName" -> name
          [] x = "SecurityGroups" -> resolve_security_groups(conf["SecurityGroups"])
          [] x = "Tags" ->
                <<[Key |-> "Name", Value |-> Dash(inf.StackName, inf.StackVersion)],
                  [Key |-> "StackName", Value |-> inf.StackName],
                  [Key |-> "StackVersion", Value |-> inf.StackVersion]>>]

MergeKeepComputed(props, conf) ==
    [x \in DOMAIN props \cup (DOMAIN conf \ SENZA_PROPERTIES) |->
        IF x \in DOMAIN props THEN props[x] ELSE conf[x]]

\* for key, val in configuration.items(): if key not in SENZA_PROPERTIES: ...
MergeOverrides(props, conf) ==
    [x \in DOMAIN props \cup (DOMAIN conf \ SENZA_PROPERTIES) |->
        IF x \in DOMAIN conf \ SENZA_PROPERTIES THEN conf[x] ELSE props[x]]

LoadBalancer(conf, inf, ls, name) ==
    [Type |-> "AWS::ElasticLoadBalancing::LoadBalancer",
     Properties |-> MergeOverrides(ComputedProperties(conf, inf, ls, name), conf)]

AssembleBalancer ==
    /\ pc = "assemble"
    /\ IF HealthCheckProtocol(configuration) \notin {"HTTP", "TCP", "UDP", "SSL"}
       THEN /\ pc' = "raised"
            /\ error' = Fatal("UsageError: Protocol", <<>>)
            /\ UNCHANGED <<configuration, definition, loadbalancer_name>>
       ELSE LET conf == WithScheme(DropNameSuffix(configuration))
                name == LoadBalancerNameOf(configuration, info)
            IN  /\ loadbalancer_name' = name
                /\ configuration' = conf
                /\ IF Scheme(conf) \notin {"internet-facing", "internal"}
                   THEN /\ pc' = "raised"
                        /\ error' = Fatal("UsageError: Scheme", <<>>)
                        /\ UNCHANGED definition
                   ELSE /\ pc' = "done"
                        /\ definition' = Put(definition, lb_name(conf),
                                             LoadBalancer(conf, info, listeners, name))
                        /\ UNCHANGED error
    /\ UNCHANGED <<given, info, k, records, converted_records, zi, subdomain, main_zone,
                   aws, listeners, queries, calls>>

-----------------------------------------------------------------------------
(* Specifications *)

EmptyMap == [x \in {} |-> x]

MainInfo == [StackName |-> <<"a", "p", "p">>, StackVersion |-> <<"1">>]

\* the state on entry to component_elastic_load_balancer
Entry(conf, inf) ==
    /\ pc = "domains"
    /\ given = conf
    /\ configuration = conf
    /\ info = inf
    /\ definition = EmptyMap
    /\ k = 1
    /\ records = <<>>
    /\ converted_records = <<>>
    /\ zi = 1
    /\ subdomain = <<>>
    /\ main_zone = None
    /\ aws = NoAnswer
    /\ listeners = <<>>
    /\ queries = <<>>
    /\ error = NoError
    /\ calls = <<>>
    /\ loadbalancer_name = <<>>

\* the optional keys are varied for configurations of at most one binding,
\* the bindings for configurations with no optional key
Init ==
    \E doms \in DomainSeqs(MaxDomains), keys \in SUBSET OptionalKeys :
        /\ Cardinality(keys) <= MaxOverrides
        /\ keys = {} \/ Len(doms) <= 1
        /\ \E choice \in [keys -> 1..3] :
              /\ \A x \in keys : choice[x] <= NumOptions(x)
              /\ Entry(WithOptions(BaseConfiguration(doms), keys, choice), MainInfo)

Next ==
    \/ GetRecords
    \/ Confirm
    \/ Delete
    \/ Upsert
    \/ AddRecordSet
    \/ BuildListeners
    \/ AssembleBalancer

Spec == Init /\ [][Next]_vars

(* get_listeners alone: the state when the domain loop has ended, for no      *)
(* binding or one binding whose records needed no conversion                  *)

CertZones == {<<>>, <<"z">>, MainZone}

AfterDomains(conf, inf) ==
    LET doms == Domains(conf)
    IN  /\ pc = "domains"
        /\ given = conf
        /\ configuration = conf
        /\ info = inf
        /\ k = Len(doms) + 1
        /\ records = <<>>
        /\ converted_records = <<>>
        /\ zi = 1
        /\ aws = NoAnswer
        /\ listeners = <<>>
        /\ queries = <<>>
        /\ error = NoError
        /\ loadbalancer_name = <<>>
        /\ IF doms = <<>>
           THEN definition = EmptyMap /\ calls = <<>>
           ELSE /\ definition = Put(EmptyMap, ResourceName(conf, 1), RecordSet(conf, inf, doms[1]))
                /\ calls = <<Call("get_records", 1, "", <<>>, TRUE)>>
        /\ IF doms # <<>> /\ doms[1].Type = "weighted"
           THEN subdomain = doms[1].Subdomain /\ main_zone = Some(doms[1].Zone)
           ELSE subdomain = <<>> /\ main_zone = None

InitCert ==
    \E doms \in {<<>>} \cup {<<Binding(1, t, z)>> : t \in DomainTypes, z \in CertZones},
       keys \in SUBSET {"SSLCertificateId"} :
        \E choice \in [keys -> 1..3] :
            AfterDomains(WithOptions(BaseConfiguration(doms), keys, choice), MainInfo)

SpecCert == InitCert /\ [][ResolveListeners]_vars

(* the balancer resource alone, over long stack names and versions: the state *)
(* when the listeners are built, for no binding and an IAM certificate ARN    *)

NameChars == <<"a", "-", "b">>
VersionChars == <<"1", "-", "2">>

StackNameOf(n) == [i \in 1..n |-> NameChars[(i % 3) + 1]]
VersionOf(n) == [i \in 1..n |-> VersionChars[(i % 3) + 1]]
SuffixOf(n) == [i \in 1..n |-> "x"]

AfterListeners(conf, inf) ==
    /\ pc = "assemble"
    /\ given = conf
    /\ configuration = conf
    /\ info = inf
    /\ definition = EmptyMap
    /\ k = 1
    /\ records = <<>>
    /\ converted_records = <<>>
    /\ zi = 1
    /\ subdomain = <<>>
    /\ main_zone = None
    /\ aws = NoAnswer
    /\ listeners = get_listeners(<<>>, None, conf, NoAnswer).listeners
    /\ queries = <<>>
    /\ error = NoError
    /\ calls = <<>>
    /\ loadbalancer_name = <<>>

InitName ==
    \E n \in 0..MaxStackLen, m \in 0..MaxVersionLen, suffix \in {None} \cup {Some(SuffixOf(j)) : j \in 0..MaxSuffixLen} :
        LET base == Put(BaseConfiguration(<<>>), "SSLCertificateId", IamArn(1))
            conf == IF suffix.some THEN Put(base, "NameSuffix", suffix.v) ELSE base
        IN  AfterListeners(conf, [StackName |-> StackNameOf(n), StackVersion |-> VersionOf(m)])

SpecName == InitName /\ [][AssembleBalancer]_vars

-----------------------------------------------------------------------------
(* Properties *)

ReservedKeys ==
    {"Domains", "HealthCheckPath", "HealthCheckPort", "HealthCheckProtocol",
     "HTTPPort", "Name", "SecurityGroups", "SSLCertificateId", "Type"}

\* the Properties of the balancer resource of a finished call
BalancerProperties == definition[lb_name(given)].Properties

\* C1 (as claimed): the computed load balancer name, written to
\* LoadBalancerName, is at most 32 characters long and ends with '-' and the
\* version (StackVersion, with '-<NameSuffix>' when a suffix is configured).
C1_NameAtMost32 ==
    pc = "done" =>
        /\ BalancerProperties["LoadBalancerName"] = loadbalancer_name
        /\ Len(loadbalancer_name) <= 32
        /\ EndsWith(loadbalancer_name, <<"-">> \o NameVersion(given, info))

\* C1 (amended): the computed name always ends with '-' and the version; it
\* is at most 32 characters long exactly when the version has at most 31
\* characters.
C1_NameAtMost32ForShortVersion ==
    pc = "done" =>
        /\ BalancerProperties["LoadBalancerName"] = loadbalancer_name
        /\ EndsWith(loadbalancer_name, <<"-">> \o NameVersion(given, info))
        /\ Len(loadbalancer_name) <= 32 <=> Len(NameVersion(given, info)) <= 31

C1_TruncatedName ==
    /\ pc = "done"
    /\ Len(info.StackName) > 32
    /\ "NameSuffix" \in DOMAIN given /\ given["NameSuffix"] # <<>>
    /\ Len(loadbalancer_name) = 32
    /\ "NameSuffix" \notin DOMAIN configuration

\* get_listeners has returned or failed
ListenersBuilt ==
    \/ pc \in {"assemble", "done", "exited"}
    \/ pc = "raised" /\ error.kind # "InvalidState"

\* no SSLCertificateId, a search by domain
DomainSearched ==
    /\ ListenersBuilt
    /\ "SSLCertificateId" \notin DOMAIN given
    /\ ~HasListeners(given)
    /\ Truthy(main_zone)

Certificates(s) == {s[i] : i \in 1..Len(s)}

\* C2: in a search by domain with no SSLCertificateId, when ACM returns a
\* certificate the listener's certificate is the ARN of one of the ACM
\* certificates, whatever IAM returns; an IAM certificate is chosen only when
\* ACM returned none.
C2_AcmPreferred ==
    DomainSearched =>
        /\ aws.acm # <<>> =>
              /\ error = NoError
              /\ Len(listeners) = 1
              /\ listeners[1].SSLCertificateId \in {Arn(c) : c \in Certificates(aws.acm)}
        /\ \A i \in 1..Len(listeners) :
              listeners[i].SSLCertificateId.shape = "iam_arn" => aws.acm = <<>>

C2_AcmChosenOverNewerIam ==
    /\ DomainSearched
    /\ aws.acm # <<>>
    /\ listeners # <<>>
    /\ listeners[1].SSLCertificateId.shape = "acm_arn"
    /\ \E c \in Certificates(aws.iam_pattern) : c.id > listeners[1].SSLCertificateId.id

Greatest(s) == CHOOSE c \in Certificates(s) : \A d \in Certificates(s) : d.id <= c.id

\* C8 (as claimed): in a search by domain the certificate is the greatest of
\* the first non-empty set among the ACM matches, the IAM certificates that
\* match the pattern, and every IAM certificate.
C8_GreatestOfFirstNonEmptySet ==
    DomainSearched /\ error = NoError =>
        /\ Len(listeners) = 1
        /\ listeners[1].SSLCertificateId =
              IF aws.acm # <<>> THEN Arn(Greatest(aws.acm))
              ELSE IF aws.iam_pattern # <<>> THEN Arn(Greatest(aws.iam_pattern))
              ELSE Arn(Greatest(aws.iam_all))

DomainDerivable(conf) ==
    \E i \in 1..Len(Domains(conf)) : Domains(conf)[i].Zone # <<>>

ComposedDomains(conf) ==
    {Dot(Domains(conf)[i].Subdomain, RStripDot(Domains(conf)[i].Zone)) :
        i \in 1..Len(Domains(conf))}

\* C3 (as claimed): with no SSLCertificateId and no Listeners, the call fails
\* with 'Could not find any SSL certificate' when no domain is derivable, and
\* with an error naming 'subdomain.zone' when a domain is derivable and the
\* searches return no certificate; no listener has a None certificate.
C3_FailsWithoutCertificate ==
    (ListenersBuilt /\ "SSLCertificateId" \notin DOMAIN given /\ "Listeners" \notin DOMAIN given)
    =>
        /\ ~DomainDerivable(given) => error.kind = "Could not find any SSL certificate"
        /\ (/\ DomainDerivable(given)
            /\ queries # <<>>
            /\ aws.acm = <<>> /\ aws.iam_pattern = <<>> /\ aws.iam_all = <<>>)
              => /\ error.kind = "Could not find any matching SSL certificate for"
                 /\ error.name \in ComposedDomains(given)
        /\ \A i \in 1..Len(listeners) : listeners[i].SSLCertificateId # NoCert

\* the binding k is being processed and records holds what get_records returned
BindingInProgress ==
    \/ pc \in {"confirm", "delete", "upsert", "record_set"}
    \/ pc = "raised" /\ error.kind = "InvalidState"

\* the records of s of hosted zone hz whose type is not 'A', in order
RECURSIVE NonA(_, _)
NonA(s, hz) ==
    IF s = <<>> THEN <<>>
    ELSE IF Head(s).type # "A" /\ Head(s).hosted_zone = hz
         THEN <<Head(s)>> \o NonA(Tail(s), hz)
         ELSE NonA(Tail(s), hz)

Aliases(s) == [i \in 1..Len(s) |-> to_alias(s[i])]

CallCount(op, i, hz) ==
    Cardinality({j \in 1..Len(calls) :
                    calls[j].op = op /\ calls[j].k = i /\ calls[j].hz = hz})

HostedZones == {r.hosted_zone : r \in RecordUniverse}

\* C4: every hosted_zone.delete is passed exactly the records of that zone
\* whose type is not 'A' among those get_records returned for the binding, and
\* every hosted_zone.upsert exactly their to_alias() equivalents; no record of
\* type 'A' is deleted or converted; a zone is converted at most once per
\* binding, so a CNAME and an A record of one zone give one delete and one
\* upsert of one record each.
C4_OnlyNonARecordsConverted ==
    /\ \A i \in 1..Len(calls) :
          /\ calls[i].op = "delete" =>
                \A j \in 1..Len(calls[i].recs) :
                    /\ calls[i].recs[j].type # "A"
                    /\ ~calls[i].recs[j].alias
                    /\ calls[i].recs[j].hosted_zone = calls[i].hz
          /\ calls[i].op = "upsert" =>
                \A j \in 1..Len(calls[i].recs) :
                    /\ calls[i].recs[j].alias
                    /\ calls[i].recs[j].hosted_zone = calls[i].hz
          /\ (BindingInProgress /\ calls[i].k = k) =>
                /\ calls[i].op = "delete" => calls[i].recs = NonA(records, calls[i].hz)
                /\ calls[i].op = "upsert" =>
                      calls[i].recs = Aliases(NonA(records, calls[i].hz))
    /\ pc = "record_set" =>
          \A hz \in HostedZones :
              LET n == IF NonA(records, hz) # <<>> THEN 1 ELSE 0
              IN  CallCount("delete", k, hz) = n /\ CallCount("upsert", k, hz) = n

C4_CnameAndAInOneZone ==
    /\ pc = "record_set"
    /\ records = <<Record("hz1", "A"), Record("hz1", "CNAME")>>
    /\ CallCount("delete", k, "hz1") = 1
    /\ calls[Len(calls)].op = "upsert"
    /\ calls[Len(calls)].recs = <<to_alias(Record("hz1", "CNAME"))>>

Declined == \E i \in 1..Len(calls) : calls[i].op = "confirm" /\ ~calls[i].ok

\* C5: when the operator declines a confirmation during binding k the call
\* ends with InvalidState; the balancer resource is not in the document, nor
\* the RecordSet of binding k or of any later binding, and no call was made
\* for a later binding or after the declined confirmation.
C5_DeclineAborts ==
    Declined =>
        /\ pc = "raised"
        /\ error.kind = "InvalidState"
        /\ calls[Len(calls)].op = "confirm" /\ ~calls[Len(calls)].ok
        /\ calls[Len(calls)].k = k
        /\ \A i \in 1..Len(calls) : calls[i].k <= k
        /\ lb_name(given) \notin DOMAIN definition
        /\ \A j \in k..Len(Domains(given)) : ResourceName(given, j) \notin DOMAIN definition
        /\ \A j \in 1..(k - 1) : ResourceName(given, j) \in DOMAIN definition

C5_DeclinedSecondZoneOfFirstBinding ==
    /\ Declined
    /\ k = 1
    /\ Len(Domains(given)) = 2
    /\ \E i \in 1..Len(calls) : calls[i].op = "upsert"

\* C10: a delete directly follows the accepted confirmation for the same
\* binding and hosted zone, an upsert directly follows the delete of the same
\* binding and hosted zone, and nothing comes between them: no zone gets an
\* upsert without the delete or a mutating call without an accepted
\* confirmation.
C10_ConfirmDeleteUpsert ==
    \A i \in 1..Len(calls) :
        /\ calls[i].op = "delete" =>
              /\ i > 1
              /\ calls[i - 1].op = "confirm" /\ calls[i - 1].ok
              /\ calls[i - 1].k = calls[i].k /\ calls[i - 1].hz = calls[i].hz
        /\ calls[i].op = "upsert" =>
              /\ i > 1
              /\ calls[i - 1].op = "delete"
              /\ calls[i - 1].k = calls[i].k /\ calls[i - 1].hz = calls[i].hz
        /\ (i < Len(calls) /\ calls[i].op = "confirm") =>
              /\ calls[i].ok
              /\ calls[i + 1].op = "delete"
        /\ (i < Len(calls) /\ calls[i].op = "delete") => calls[i + 1].op = "upsert"
        /\ (i = Len(calls) /\ calls[i].op = "delete") => pc = "upsert"
        /\ (i = Len(calls) /\ calls[i].op = "confirm") => pc \in {"delete", "raised"}

C10_TwoZonesConverted ==
    \E i, j \in 1..Len(calls) :
        /\ i < j
        /\ calls[i].op = "upsert" /\ calls[j].op = "upsert"
        /\ calls[i].k = calls[j].k
        /\ calls[i].hz # calls[j].hz

\* C6 (as claimed): after a successful call every key of the configuration
\* that is not reserved is in the balancer's Properties with the value the
\* configuration gave it.
C6_EveryOverrideCopied ==
    pc = "done" =>
        \A key \in DOMAIN given \ ReservedKeys :
            /\ key \in DOMAIN BalancerProperties
            /\ BalancerProperties[key] = given[key]

\* C6 (amended): as claimed for every key but a non-empty NameSuffix, which
\* is deleted from the configuration and is not in Properties.
C6_EveryOverrideButNameSuffixCopied ==
    pc = "done" =>
        \A key \in DOMAIN given \ ReservedKeys :
            IF key = "NameSuffix" /\ Truthy(Get(given, "NameSuffix"))
            THEN key \notin DOMAIN BalancerProperties
            ELSE /\ key \in DOMAIN BalancerProperties
                 /\ BalancerProperties[key] = given[key]

C6_ComputedNameOverridden ==
    /\ pc = "done"
    /\ "LoadBalancerName" \in DOMAIN given
    /\ BalancerProperties["LoadBalancerName"] = given["LoadBalancerName"]
    /\ BalancerProperties["LoadBalancerName"] # loadbalancer_name

\* C7: after a successful call no reserved key of the configuration is in the
\* balancer's Properties with the configuration's value: the only reserved
\* key there is SecurityGroups, with the resolved groups.
C7_ReservedKeysNotCopied ==
    pc = "done" =>
        \A key \in ReservedKeys \cap DOMAIN given :
            key \in DOMAIN BalancerProperties =>
                /\ key = "SecurityGroups"
                /\ BalancerProperties[key] = resolve_security_groups(given[key])

C7_HealthCheckPathNotCopied ==
    /\ pc = "done"
    /\ "HealthCheckPath" \in DOMAIN given
    /\ "HealthCheckPath" \notin DOMAIN BalancerProperties
    /\ BalancerProperties["HealthCheck"].Target.path = given["HealthCheckPath"]

\* what get_listeners gives for the subdomain and zone of binding i (of no
\* binding when i = 0) and the answers the stores gave
ListenersFor(i) ==
    IF i = 0 THEN get_listeners(<<>>, None, given, aws)
    ELSE get_listeners(Domains(given)[i].Subdomain, Some(Domains(given)[i].Zone), given, aws)

ListenersAre(out) ==
    /\ queries = out.queries
    /\ listeners = out.listeners
    /\ pc \in {"assemble", "done"} => out.error = NoError
    /\ pc = "exited" => error = out.error
    /\ out.error = NoError =>
          /\ Len(listeners) = 1
          /\ listeners[1].Protocol = "HTTPS"
          /\ listeners[1].LoadBalancerPort = 443
          /\ listeners[1].InstancePort = given["HTTPPort"]
          /\ listeners[1].PolicyNames = <<>>

\* C9 (as claimed): with no explicit listener list there is one HTTPS
\* listener (443, HTTPPort, no policy) whose certificate is resolved with the
\* subdomain and zone of the first binding, whatever its type and however
\* many bindings follow it. Stated for the configurations that have a weighted
\* binding, where the search by domain does run.
C9_FirstBindingDecidesCertificate ==
    (/\ ListenersBuilt
     /\ ~HasListeners(given)
     /\ \E i \in 1..Len(Domains(given)) : Domains(given)[i].Type = "weighted") =>
        ListenersAre(ListenersFor(1))

LastWeighted(doms) ==
    IF \E i \in 1..Len(doms) : doms[i].Type = "weighted"
    THEN CHOOSE i \in 1..Len(doms) :
            /\ doms[i].Type = "weighted"
            /\ \A j \in (i + 1)..Len(doms) : doms[j].Type # "weighted"
    ELSE 0

\* C9 (amended): the certificate is resolved with the subdomain and zone of
\* the last weighted binding, and with no domain only when no binding is
\* weighted.
C9_LastWeightedBindingDecidesCertificate ==
    (ListenersBuilt /\ ~HasListeners(given)) =>
        ListenersAre(ListenersFor(LastWeighted(Domains(given))))

C9_SecondWeightedBindingUsed ==
    /\ pc = "done"
    /\ ~HasListeners(given)
    /\ Len(Domains(given)) = 2
    /\ Domains(given)[1].Type = "weighted"
    /\ Domains(given)[2].Type = "weighted"
    /\ queries # <<>>
    /\ queries[1].arg = CertificateDomain(Domains(given)[2].Subdomain, Domains(given)[2].Zone)
    /\ listeners[1].SSLCertificateId.shape = "acm_arn"

====
